---- MODULE Spec2Model ----
(***************************************************************************)
(* Model of the upload scheduler of rendy's factory crate                  *)
(* (factory/src/upload.rs): Uploader, FamilyUploads, NextUploads and       *)
(* PendingUploads, together with the part of the device they talk to       *)
(* (fences, command buffers of a pool, queue submissions).                 *)
(***************************************************************************)
EXTENDS Integers, Sequences, FiniteSets, TLC

\* Number of upload_buffer / upload_image calls of a run (each call brings
\* its own staging buffer, numbered 1..MaxUploads).
MaxUploads == 2

\* Queue families, and the queues (family, index) of the device.
Families == {0, 1}
QueueIds ==
    { [family |-> 0, index |-> 0],
      [family |-> 0, index |-> 1],
      [family |-> 1, index |-> 0] }

\* Option<T>: None is the empty tuple, Some(x) the one-element tuple.
None == << >>
Some(x) == << x >>
IsSome(o) == o # None
Unwrap(o) == o[1]

\* Vec::pop: the last element, if any, and the vector without it.
Pop(v) == IF v = << >> THEN None ELSE Some(v[Len(v)])
PopRest(v) == IF v = << >> THEN v ELSE SubSeq(v, 1, Len(v) - 1)

RECURSIVE SeqToSet(_)
SeqToSet(s) == IF s = << >> THEN {} ELSE {Head(s)} \cup SeqToSet(Tail(s))

RECURSIVE Flatten(_)
Flatten(ss) == IF ss = << >> THEN << >> ELSE Head(ss) \o Flatten(Tail(ss))

\* Number of positions of s holding x.
Count(s, x) == Cardinality({i \in 1..Len(s) : s[i] = x})

(***************************************************************************)
(* Image layouts, buffer and image states                                  *)
(***************************************************************************)
Layouts == {"Undefined", "General", "TransferDstOptimal", "ShaderReadOnlyOptimal"}

\* BufferState::new / ImageState::new: stage TOP_OF_PIPE, every access.
BufferState(queue) == [queue |-> queue, stage |-> "TOP_OF_PIPE", access |-> "all"]
ImageState(queue, layout) ==
    [queue |-> queue, stage |-> "TOP_OF_PIPE", access |-> "all", layout |-> layout]

\* ImageStateOrLayout: State(ImageState) or Layout(layout).
StateOf(state) == [variant |-> "State", state |-> state]
LayoutOf(layout) == [variant |-> "Layout", layout |-> layout]

(***************************************************************************)
(* Barriers (crate::barriers): requests accumulate between emissions;      *)
(* encode_before emits the accumulated "before" transitions as one         *)
(* pipeline barrier and forgets them, encode_after likewise for "after".   *)
(***************************************************************************)
Barriers_new == [before |-> << >>, after |-> << >>]

add_buffer(barriers, buffer, last, next) ==
    LET req == [kind |-> "buffer", resource |-> buffer, last |-> last, next |-> next]
    IN  [before |-> Append(barriers.before, req),
         after |-> Append(barriers.after, req)]

add_image(barriers, image, last_stage, last_access, last_layout, target_layout, next_stage, next_access, next_layout) ==
    LET req == [kind |-> "image", resource |-> image,
                last |-> << last_stage, last_access >>, last_layout |-> last_layout,
                target_layout |-> target_layout,
                next |-> << next_stage, next_access >>, next_layout |-> next_layout]
    IN  [before |-> Append(barriers.before, req),
         after |-> Append(barriers.after, req)]

\* The commands encode_before / encode_after append to the encoder's buffer
\* and the accumulator afterwards.
encode_before(barriers) ==
    [cmds |-> IF barriers.before = << >> THEN << >>
              ELSE << [op |-> "pipeline_barrier", phase |-> "before",
                       transitions |-> barriers.before] >>,
     barriers |-> [barriers EXCEPT !.before = << >>]]

encode_after(barriers) ==
    [cmds |-> IF barriers.after = << >> THEN << >>
              ELSE << [op |-> "pipeline_barrier", phase |-> "after",
                       transitions |-> barriers.after] >>,
     barriers |-> [barriers EXCEPT !.after = << >>]]

(***************************************************************************)
(* Command buffers: a raw buffer of the pool, its type state and the       *)
(* commands recorded into it.                                              *)
(***************************************************************************)
CommandBuffer(id) == [id |-> id, state |-> "Initial", cmds |-> << >>]
begin(cb) == [cb EXCEPT !.state = "Recording"]
record(cb, cmds) == [cb EXCEPT !.cmds = @ \o cmds]
submit_once(cb) == [cb EXCEPT !.state = "Pending"]
mark_complete(cb) == [cb EXCEPT !.state = "Invalid"]
reset(cb) == [cb EXCEPT !.state = "Initial", !.cmds = << >>]

(***************************************************************************)
(* State                                                                   *)
(***************************************************************************)
VARIABLES
    family_uploads,   \* Uploader.family_uploads: one FamilyUploads per family
    nBuffers,         \* device: command buffers allocated so far (ids 1..n)
    nFences,          \* device: fences created so far (ids 1..n)
    signaled,         \* device: the fences in the signaled state
    submitted,        \* device: every queue submission, in order
    released,         \* staging buffers dropped (released), one entry per drop
    freed,            \* command buffers given back by free_buffers, per call
    destroyed,        \* fences passed to destroy_fence, per call
    nUploads,         \* upload_* calls made so far
    uploads,          \* history: what each upload_* call did
    reclaimed,        \* history: the batches cleanup reclaimed
    panicked,         \* a call has panicked (unimplemented!, panic!)
    threads,          \* the upload_buffer call each caller thread is in
    lock              \* per family: the thread holding its Mutex, or 0

vars == << family_uploads, nBuffers, nFences, signaled, submitted, released,
           freed, destroyed, nUploads, uploads, reclaimed, panicked,
           threads, lock >>

\* Number of caller threads that issue uploads concurrently.
MaxThreads == 2
Threads == 1..MaxThreads

\* A thread that is in no call.
Idle ==
    [pc |-> "idle", queue |-> [family |-> 0, index |-> 0], last |-> None,
     oom |-> FALSE, result |-> "none"]

\* Uploader::new: an empty FamilyUploads for every family.
FamilyUploads_new ==
    [fences |-> << >>, pool |-> {}, next |-> << >>, pending |-> << >>,
     command_buffers |-> << >>, barriers_buffers |-> << >>,
     barriers |-> Barriers_new]

Init ==
    /\ family_uploads = [i \in 1..Cardinality(Families) |-> FamilyUploads_new]
    /\ nBuffers = 0
    /\ nFences = 0
    /\ signaled = {}
    /\ submitted = << >>
    /\ released = << >>
    /\ freed = << >>
    /\ destroyed = << >>
    /\ nUploads = 0
    /\ threads = [t \in Threads |-> Idle]
    /\ lock = [i \in 1..Cardinality(Families) |-> 0]
    /\ uploads = << >>
    /\ reclaimed = << >>
    /\ panicked = FALSE

\* The FamilyUploads of family f (family_uploads[family.index]).
FU(f) == family_uploads[f + 1]

\* The Uploader is live: not disposed, and no call has panicked.
Live == family_uploads # << >> /\ ~panicked

(***************************************************************************)
(* FamilyUploads::next_upload                                              *)
(***************************************************************************)
\* A padding that resizes the list of slots to queue + 1.
PadNext_resize(next, queue) ==
    [i \in 1..(queue + 1) |-> IF i <= Len(next) THEN next[i] ELSE None]

\* while self.next.len() <= queue { self.next.push(None) }
PadNext(next, queue) ==
    IF Len(next) <= queue
    THEN next \o [i \in 1..(queue + 1 - Len(next)) |-> None]
    ELSE next

\* The recording batch of queue index `queue` of fu, or None.
Slot(fu, queue) == IF Len(fu.next) <= queue THEN None ELSE fu.next[queue + 1]

\* A `slot @ None` arm that allocates and creates whatever the free-lists hold.
acquire_fresh(fu, queue, buffers, fences, oom) ==
    IF oom
    THEN [fu |-> [fu EXCEPT !.pool = @ \cup {buffers + 1, buffers + 2}],
          buffers |-> buffers + 2, fences |-> fences, result |-> "Err(OutOfMemory)"]
    ELSE [fu |-> [fu EXCEPT !.pool = @ \cup {buffers + 1, buffers + 2},
                            !.next[queue + 1] =
                                Some([barriers_buffer |-> begin(CommandBuffer(buffers + 2)),
                                      command_buffer |-> begin(CommandBuffer(buffers + 1)),
                                      staging_buffers |-> << >>,
                                      fence |-> fences + 1])],
          buffers |-> buffers + 2, fences |-> fences + 1, result |-> "Ok"]

\* The `slot @ None` arm of next_upload for the padded family state fu:
\* command buffers and fence come from the free-lists, or from the pool and
\* the device when a free-list is empty. `oom` is the device's answer should
\* create_fence be called; on Err the `?` returns with the two command
\* buffers dropped.
acquire(fu, queue, buffers, fences, oom) ==
    LET cbPooled == Pop(fu.command_buffers)
        bbPooled == Pop(fu.barriers_buffers)
        fencePooled == Pop(fu.fences)
        \* pool.allocate_buffers(1) when the free-list is empty
        cbId == buffers + 1
        buffers1 == IF IsSome(cbPooled) THEN buffers ELSE buffers + 1
        command_buffer == IF IsSome(cbPooled) THEN Unwrap(cbPooled) ELSE CommandBuffer(cbId)
        bbId == buffers1 + 1
        buffers2 == IF IsSome(bbPooled) THEN buffers1 ELSE buffers1 + 1
        barriers_buffer == IF IsSome(bbPooled) THEN Unwrap(bbPooled) ELSE CommandBuffer(bbId)
        pool == fu.pool \cup (IF IsSome(cbPooled) THEN {} ELSE {cbId})
                        \cup (IF IsSome(bbPooled) THEN {} ELSE {bbId})
        popped == [fu EXCEPT !.command_buffers = PopRest(@),
                             !.barriers_buffers = PopRest(@),
                             !.fences = PopRest(@),
                             !.pool = pool]
        \* device.create_fence(false) when the free-list is empty
        fence == IF IsSome(fencePooled) THEN Unwrap(fencePooled) ELSE fences + 1
        fences1 == IF IsSome(fencePooled) THEN fences ELSE fences + 1
        batch == [barriers_buffer |-> begin(barriers_buffer),
                  command_buffer |-> begin(command_buffer),
                  staging_buffers |-> << >>,
                  fence |-> fence]
    IN  IF ~IsSome(fencePooled) /\ oom
        THEN [fu |-> popped, buffers |-> buffers2, fences |-> fences,
              result |-> "Err(OutOfMemory)"]
        ELSE [fu |-> [popped EXCEPT !.next[queue + 1] = Some(batch)],
              buffers |-> buffers2, fences |-> fences1, result |-> "Ok"]

\* A next_upload that starts a batch of its own for every request.
next_upload_fresh(fu, queue, buffers, fences, oom) ==
    acquire([fu EXCEPT !.next = PadNext(@, queue)], queue, buffers, fences, oom)

\* next_upload(device, queue): the state of the family and of the device
\* counters afterwards, and Ok or the error of create_fence.
next_upload(fu, queue, buffers, fences, oom) ==
    LET padded == [fu EXCEPT !.next = PadNext(@, queue)]
    IN  IF IsSome(padded.next[queue + 1])
        THEN [fu |-> padded, buffers |-> buffers, fences |-> fences, result |-> "Ok"]
        ELSE acquire(padded, queue, buffers, fences, oom)

\* Recording into the batch next_upload returned: the copy command goes to
\* its command buffer and the staging buffer into its list.
RecordCopy(fu, queue, cmd, staging) ==
    [fu EXCEPT !.next[queue + 1] =
        Some([Unwrap(@) EXCEPT !.command_buffer = record(@, << cmd >>),
                               !.staging_buffers = Append(@, staging)])]

(***************************************************************************)
(* Uploader::upload_buffer                                                 *)
(***************************************************************************)
\* The family state, the device counters and the result of
\* upload_buffer(buffer, offset, staging, last, next) on family state fu.
\* `last` is an Option<BufferState>.
upload_buffer(fu, staging, last, next, buffers, fences, oom) ==
    IF IsSome(last) /\ Unwrap(last).queue # next.queue
    THEN [fu |-> fu, buffers |-> buffers, fences |-> fences, result |-> "panic"]
    ELSE
    LET withBarrier ==
            [fu EXCEPT !.barriers =
                add_buffer(@, staging,
                           IF IsSome(last)
                           THEN Some(<< Unwrap(last).stage, Unwrap(last).access >>)
                           ELSE None,
                           << next.stage, next.access >>)]
        got == next_upload(withBarrier, next.queue.index, buffers, fences, oom)
        cmd == [op |-> "copy_buffer", src |-> staging]
    IN  IF got.result # "Ok" THEN got
        ELSE [got EXCEPT !.fu = RecordCopy(@, next.queue.index, cmd, staging)]

(***************************************************************************)
(* Uploader::upload_image                                                  *)
(***************************************************************************)
\* gfx_hal::image::Offset::ZERO, and the extent of the destination images.
OffsetZero == << 0, 0, 0 >>
KindExtent == << 2, 2, 1 >>

whole_image(image_offset, image_extent) ==
    image_offset = OffsetZero /\ image_extent = KindExtent

\* A last_of that keeps the layout a fully described prior state reports.
last_of_reported(last, whole) ==
    IF last.variant = "State"
    THEN << last.state.stage, last.state.access, last.state.layout >>
    ELSE << "TOP_OF_PIPE", "empty",
            IF whole THEN "Undefined" ELSE last.layout >>

\* (last_stage, last_access, last_layout) of the barrier request.
last_of(last, whole) ==
    IF last.variant = "State"
    THEN << last.state.stage, last.state.access,
            IF whole THEN "Undefined" ELSE last.state.layout >>
    ELSE << "TOP_OF_PIPE", "empty",
            IF whole THEN "Undefined" ELSE last.layout >>

\* A target_layout that looks at the next layout alone.
target_layout_next_only(last_layout, next_layout) ==
    IF next_layout = "General" THEN "General" ELSE "TransferDstOptimal"

target_layout(last_layout, next_layout) ==
    IF next_layout = "General" THEN "General"
    ELSE IF last_layout = "General" THEN "General"
    ELSE "TransferDstOptimal"

\* upload_image(image, .., image_offset, image_extent, staging, last, next)
\* on family state fu. `last` is an ImageStateOrLayout.
upload_image(fu, staging, image_offset, image_extent, last, next, buffers, fences, oom) ==
    IF last.variant = "State" /\ last.state.queue # next.queue
    THEN [fu |-> fu, buffers |-> buffers, fences |-> fences, result |-> "panic"]
    ELSE
    LET whole == whole_image(image_offset, image_extent)
        l == last_of(last, whole)
        target == target_layout(l[3], next.layout)
        withBarrier ==
            [fu EXCEPT !.barriers =
                add_image(@, staging, l[1], l[2], l[3], target,
                          next.stage, next.access, next.layout)]
        got == next_upload(withBarrier, next.queue.index, buffers, fences, oom)
        cmd == [op |-> "copy_buffer_to_image", src |-> staging, layout |-> target]
    IN  IF got.result # "Ok" THEN got
        ELSE [got EXCEPT !.fu = RecordCopy(@, next.queue.index, cmd, staging)]

(***************************************************************************)
(* FamilyUploads::flush                                                    *)
(***************************************************************************)
\* A round of flush that drops the staging buffers of the batch at submission.
flush_one_unowned(st, queue, next) ==
    LET before == encode_before(st.barriers)
        after == encode_after(before.barriers)
        barriers_buffer == submit_once(record(next.barriers_buffer, before.cmds))
        command_buffer == submit_once(record(next.command_buffer, after.cmds))
    IN  [barriers |-> after.barriers,
         pending |-> Append(st.pending, [barriers_buffer |-> barriers_buffer,
                                         command_buffer |-> command_buffer,
                                         staging_buffers |-> << >>,
                                         fence |-> next.fence]),
         submissions |-> Append(st.submissions, [queue |-> queue,
                                                 submits |-> << barriers_buffer, command_buffer >>,
                                                 fence |-> next.fence])]

\* A round of flush that puts the batch at the front of the pending FIFO.
flush_one_front(st, queue, next) ==
    LET before == encode_before(st.barriers)
        after == encode_after(before.barriers)
        barriers_buffer == submit_once(record(next.barriers_buffer, before.cmds))
        command_buffer == submit_once(record(next.command_buffer, after.cmds))
    IN  [barriers |-> after.barriers,
         pending |-> << [barriers_buffer |-> barriers_buffer,
                         command_buffer |-> command_buffer,
                         staging_buffers |-> next.staging_buffers,
                         fence |-> next.fence] >> \o st.pending,
         submissions |-> Append(st.submissions, [queue |-> queue,
                                                 submits |-> << barriers_buffer, command_buffer >>,
                                                 fence |-> next.fence])]

\* One round of the loop of flush, for the recording batch `next` of queue
\* index `queue`. st holds the accumulated barriers, the pending FIFO and
\* the submissions made so far by this call.
flush_one(st, queue, next) ==
    LET before == encode_before(st.barriers)
        after == encode_after(before.barriers)
        barriers_buffer == submit_once(record(next.barriers_buffer, before.cmds))
        command_buffer == submit_once(record(next.command_buffer, after.cmds))
        submission == [queue |-> queue,
                       submits |-> << barriers_buffer, command_buffer >>,
                       fence |-> next.fence]
        pending == [barriers_buffer |-> barriers_buffer,
                    command_buffer |-> command_buffer,
                    staging_buffers |-> next.staging_buffers,
                    fence |-> next.fence]
    IN  [barriers |-> after.barriers,
         pending |-> Append(st.pending, pending),
         submissions |-> Append(st.submissions, submission)]

\* self.next.drain(..).enumerate().filter_map(..): the slots from position i on.
RECURSIVE flush_loop(_, _, _)
flush_loop(st, next, i) ==
    IF i > Len(next) THEN st
    ELSE IF ~IsSome(next[i]) THEN flush_loop(st, next, i + 1)
    ELSE flush_loop(flush_one(st, i - 1, Unwrap(next[i])), next, i + 1)

\* A flush that numbers the batches after dropping the empty slots.
flush_loop_filtered(st, next, i) ==
    flush_loop(st, SelectSeq(next, IsSome), i)

\* The loop of flush over the drained slots: queue index and batch of every
\* occupied slot, in index order.
flush_all(st, next, i) == flush_loop(st, next, i)

\* A flush that leaves the recording batches in their slots.
FamilyFlush_keep(fu) ==
    LET st == flush_all([barriers |-> fu.barriers, pending |-> fu.pending,
                         submissions |-> << >>], fu.next, 1)
    IN  [fu |-> [fu EXCEPT !.barriers = st.barriers, !.pending = st.pending],
         submissions |-> st.submissions]

\* flush(family): the family state afterwards and the submissions made, each
\* with the index of the queue it went to.
FamilyFlush(fu) ==
    LET st == flush_all([barriers |-> fu.barriers, pending |-> fu.pending,
                         submissions |-> << >>], fu.next, 1)
    IN  [fu |-> [fu EXCEPT !.next = << >>, !.barriers = st.barriers,
                           !.pending = st.pending],
         submissions |-> st.submissions]

(***************************************************************************)
(* FamilyUploads::cleanup                                                  *)
(***************************************************************************)
\* A reclaim that returns each command buffer to the other kind's free-list.
reclaim_swapped(st, pending) ==
    [fu |-> [st.fu EXCEPT
                !.fences = Append(@, pending.fence),
                !.command_buffers = Append(@, reset(mark_complete(pending.barriers_buffer))),
                !.barriers_buffers = Append(@, reset(mark_complete(pending.command_buffer)))],
     dropped |-> st.dropped \o pending.staging_buffers,
     reclaimed |-> Append(st.reclaimed, pending)]

\* A reclaim that does not pool the barrier command buffer.
reclaim_copy_only(st, pending) ==
    [fu |-> [st.fu EXCEPT
                !.fences = Append(@, pending.fence),
                !.command_buffers = Append(@, reset(mark_complete(pending.command_buffer)))],
     dropped |-> st.dropped \o pending.staging_buffers,
     reclaimed |-> Append(st.reclaimed, pending)]

\* The Ok(true) arm of the loop of cleanup for the popped batch `pending`:
\* fence and command buffers go to the free-lists; `pending`, with its
\* staging buffers, is dropped at the end of the arm.
reclaim(st, pending) ==
    [fu |-> [st.fu EXCEPT
                !.fences = Append(@, pending.fence),
                !.command_buffers = Append(@, reset(mark_complete(pending.command_buffer))),
                !.barriers_buffers = Append(@, reset(mark_complete(pending.barriers_buffer)))],
     dropped |-> st.dropped \o pending.staging_buffers,
     reclaimed |-> Append(st.reclaimed, pending)]

\* A cleanup that goes on to the younger batches past an unsignaled fence.
RECURSIVE cleanup_skip(_, _, _)
cleanup_skip(st, rest, sig) ==
    IF rest = << >> THEN st
    ELSE IF Head(rest).fence \notin sig
         THEN cleanup_skip([st EXCEPT !.fu.pending = Append(@, Head(rest))], Tail(rest), sig)
         ELSE cleanup_skip(reclaim(st, Head(rest)), Tail(rest), sig)

cleanup_loop_skip(st, sig) ==
    cleanup_skip([st EXCEPT !.fu.pending = << >>], st.fu.pending, sig)

\* A cleanup that does not put the unsignaled batch back.
RECURSIVE cleanup_loop_forget(_, _)
cleanup_loop_forget(st, sig) ==
    IF st.fu.pending = << >> THEN st
    ELSE LET pending == Head(st.fu.pending)
             popped == [st EXCEPT !.fu.pending = Tail(@)]
         IN  IF pending.fence \notin sig
             THEN popped
             ELSE cleanup_loop_forget(reclaim(popped, pending), sig)

\* while let Some(pending) = self.pending.pop_front() { .. }, with
\* get_fence_status answering from the set `sig` of signaled fences.
RECURSIVE cleanup_loop(_, _)
cleanup_loop(st, sig) ==
    IF st.fu.pending = << >> THEN st
    ELSE LET pending == Head(st.fu.pending)
             popped == [st EXCEPT !.fu.pending = Tail(@)]
         IN  IF pending.fence \notin sig
             THEN st    \* push_front(pending); return
             ELSE cleanup_loop(reclaim(popped, pending), sig)

\* A cleanup that reclaims the oldest batch at most.
FamilyCleanup_one(fu, sig) ==
    IF fu.pending = << >> \/ Head(fu.pending).fence \notin sig
    THEN [fu |-> fu, dropped |-> << >>, reclaimed |-> << >>]
    ELSE reclaim([fu |-> [fu EXCEPT !.pending = Tail(@)], dropped |-> << >>,
                  reclaimed |-> << >>], Head(fu.pending))

\* cleanup(device): the family state afterwards, the staging buffers dropped
\* and the batches reclaimed, in order.
FamilyCleanup(fu, sig) ==
    cleanup_loop([fu |-> fu, dropped |-> << >>, reclaimed |-> << >>], sig)

(***************************************************************************)
(* FamilyUploads::dispose                                                  *)
(***************************************************************************)
\* A dispose that leaves the fences of the recording batches alone.
FamilyDispose_pooled_only(fu) ==
    LET recording == SelectSeq(fu.next, IsSome)
    IN  [destroyed |->
            [i \in 1..Len(fu.pending) |-> fu.pending[i].fence] \o fu.fences,
         freed |->
            [i \in 1..Len(fu.pending) |-> fu.pending[i].command_buffer.id]
            \o [i \in 1..Len(fu.command_buffers) |-> fu.command_buffers[i].id]
            \o [i \in 1..Len(fu.barriers_buffers) |-> fu.barriers_buffers[i].id]
            \o Flatten([i \in 1..Len(recording) |->
                           << Unwrap(recording[i]).command_buffer.id,
                              Unwrap(recording[i]).barriers_buffer.id >>]),
         dropped |->
            Flatten([i \in 1..Len(fu.pending) |-> fu.pending[i].staging_buffers])
            \o Flatten([i \in 1..Len(recording) |->
                           Unwrap(recording[i]).staging_buffers])]

\* dispose(device): the fences passed to destroy_fence, the command buffers
\* passed to free_buffers and the staging buffers dropped, in order.
FamilyDispose(fu) ==
    LET recording == SelectSeq(fu.next, IsSome)
    IN  [destroyed |->
            [i \in 1..Len(fu.pending) |-> fu.pending[i].fence]
            \o fu.fences
            \o [i \in 1..Len(recording) |-> Unwrap(recording[i]).fence],
         freed |->
            [i \in 1..Len(fu.pending) |-> fu.pending[i].command_buffer.id]
            \o [i \in 1..Len(fu.command_buffers) |-> fu.command_buffers[i].id]
            \o [i \in 1..Len(fu.barriers_buffers) |-> fu.barriers_buffers[i].id]
            \o Flatten([i \in 1..Len(recording) |->
                           << Unwrap(recording[i]).command_buffer.id,
                              Unwrap(recording[i]).barriers_buffer.id >>]),
         dropped |->
            Flatten([i \in 1..Len(fu.pending) |-> fu.pending[i].staging_buffers])
            \o Flatten([i \in 1..Len(recording) |->
                           Unwrap(recording[i]).staging_buffers])]

(***************************************************************************)
(* The calls of the API (Uploader) and the device                          *)
(***************************************************************************)
\* The requests the callers make.
BufferLasts == {None} \cup {Some(BufferState(q)) : q \in QueueIds}
ImageOffsets == {OffsetZero, << 1, 0, 0 >>}
ImageExtents == {KindExtent, << 1, 1, 1 >>}
ImageLasts ==
    {StateOf(ImageState(q, "Undefined")) : q \in QueueIds}
ImageNexts == {ImageState(q, "ShaderReadOnlyOptimal") : q \in QueueIds}

WithFamily(f, fu) == [family_uploads EXCEPT ![f + 1] = fu]

\* What an upload_* call that ended with `got` leaves behind: the family
\* state, the device counters, the staging buffer (dropped unless the batch
\* took it) and the history (last_queue: the queue of the prior state given).
Uploaded(queue, staging, last_queue, got) ==
    /\ family_uploads' = WithFamily(queue.family, got.fu)
    /\ nBuffers' = got.buffers
    /\ nFences' = got.fences
    /\ released' = IF got.result = "Ok" THEN released ELSE Append(released, staging)
    /\ nUploads' = staging
    /\ uploads' = Append(uploads, [staging |-> staging, queue |-> queue,
                                   last_queue |-> last_queue,
                                   result |-> got.result, flushed |-> FALSE])
    /\ panicked' = (got.result = "panic")
    /\ UNCHANGED << threads, lock >>
    /\ UNCHANGED << signaled, submitted, freed, destroyed, reclaimed >>

UploadBuffer ==
    /\ Live
    /\ nUploads < MaxUploads
    /\ \E last \in BufferLasts, q \in QueueIds, oom \in BOOLEAN :
          Uploaded(q, nUploads + 1,
                   IF IsSome(last) THEN Some(Unwrap(last).queue) ELSE None,
                   upload_buffer(FU(q.family), nUploads + 1, last, BufferState(q),
                                 nBuffers, nFences, oom))

UploadImage ==
    /\ Live
    /\ nUploads < MaxUploads
    /\ \E last \in ImageLasts, next \in ImageNexts, oom \in BOOLEAN,
          image_offset \in ImageOffsets, image_extent \in ImageExtents :
          Uploaded(next.queue, nUploads + 1,
                   IF last.variant = "State" THEN Some(last.state.queue) ELSE None,
                   upload_image(FU(next.queue.family), nUploads + 1, image_offset,
                                image_extent, last, next, nBuffers, nFences, oom))

\* Uploader::flush: every family in turn; family.queue_mut(queue).submit_raw_fence
\* hands each submission to the device.
Flushed(f) == FamilyFlush(FU(f))

Flush ==
    /\ Live
    /\ family_uploads' = [i \in 1..Len(family_uploads) |-> Flushed(i - 1).fu]
    /\ submitted' = submitted \o
          Flatten([i \in 1..Len(family_uploads) |->
             LET subs == Flushed(i - 1).submissions
             IN  [k \in 1..Len(subs) |->
                    [queue |-> [family |-> i - 1, index |-> subs[k].queue],
                     submits |-> subs[k].submits,
                     fence |-> subs[k].fence,
                     done |-> FALSE]]])
    /\ uploads' = [i \in 1..Len(uploads) |-> [uploads[i] EXCEPT !.flushed = TRUE]]
    /\ UNCHANGED << threads, lock >>
    /\ UNCHANGED << nBuffers, nFences, signaled, released, freed, destroyed,
                    nUploads, reclaimed, panicked >>

\* The device completes the oldest unfinished submission of a queue and
\* signals its fence.
DeviceComplete ==
    /\ Live
    /\ \E i \in 1..Len(submitted) :
          /\ ~submitted[i].done
          /\ \A j \in 1..(i - 1) :
                submitted[j].queue = submitted[i].queue => submitted[j].done
          /\ submitted' = [submitted EXCEPT ![i].done = TRUE]
          /\ signaled' = signaled \cup {submitted[i].fence}
    /\ UNCHANGED << threads, lock >>
    /\ UNCHANGED << family_uploads, nBuffers, nFences, released, freed, destroyed,
                    nUploads, uploads, reclaimed, panicked >>

\* The device has completed the submission made for batch `pending`.
Completed(pending) ==
    \E i \in 1..Len(submitted) :
        /\ submitted[i].submits = << pending.barriers_buffer, pending.command_buffer >>
        /\ submitted[i].done

\* Uploader::cleanup: every family in turn.
Cleaned(f) == FamilyCleanup(FU(f), signaled)

Cleanup ==
    /\ Live
    /\ family_uploads' = [i \in 1..Len(family_uploads) |-> Cleaned(i - 1).fu]
    /\ released' = released \o
          Flatten([i \in 1..Len(family_uploads) |-> Cleaned(i - 1).dropped])
    /\ reclaimed' = reclaimed \o
          Flatten([i \in 1..Len(family_uploads) |->
             LET r == Cleaned(i - 1).reclaimed
             IN  [k \in 1..Len(r) |->
                    [family |-> i - 1, batch |-> r[k], completed |-> Completed(r[k])]]])
    /\ UNCHANGED << threads, lock >>
    /\ UNCHANGED << nBuffers, nFences, signaled, submitted, freed, destroyed,
                    nUploads, uploads, panicked >>

\* Uploader::cleanup when get_fence_status answers Err(DeviceLost) to the
\* first query: the call panics with the popped batch dropped.
CleanupDeviceLost ==
    /\ Live
    /\ \E f \in Families :
          /\ FU(f).pending # << >>
          /\ \A g \in Families : g < f => FU(g).pending = << >>
          /\ family_uploads' = WithFamily(f, [FU(f) EXCEPT !.pending = Tail(@)])
          /\ released' = released \o Head(FU(f).pending).staging_buffers
    /\ panicked' = TRUE
    /\ UNCHANGED << threads, lock >>
    /\ UNCHANGED << nBuffers, nFences, signaled, submitted, freed, destroyed,
                    nUploads, uploads, reclaimed >>

\* Uploader::dispose, which the caller may call with the device idle.
DeviceIdle == \A i \in 1..Len(submitted) : submitted[i].done

Disposed(f) == FamilyDispose(FU(f))

Dispose ==
    /\ Live
    /\ DeviceIdle
    /\ family_uploads' = << >>
    /\ destroyed' = destroyed \o
          Flatten([i \in 1..Len(family_uploads) |-> Disposed(i - 1).destroyed])
    /\ freed' = freed \o
          Flatten([i \in 1..Len(family_uploads) |-> Disposed(i - 1).freed])
    /\ released' = released \o
          Flatten([i \in 1..Len(family_uploads) |-> Disposed(i - 1).dropped])
    /\ UNCHANGED << threads, lock >>
    /\ UNCHANGED << nBuffers, nFences, signaled, submitted, nUploads, uploads,
                    reclaimed, panicked >>

\* Number of upload_image calls of a run that tries every kind of request.
MaxImageUploads == 1

\* upload_image for queue 0 of family 0 with every kind of request: each
\* layout as the next layout and as the prior one, given as a bare layout or
\* as a full state (of any queue), for the whole image or a part of it. The
\* history keeps what the caller asked for.
AnyImageQueue == [family |-> 0, index |-> 0]
AnyImageLasts ==
    {LayoutOf(l) : l \in Layouts}
    \cup {StateOf(ImageState(q, l)) : q \in QueueIds, l \in Layouts}
AnyImageNexts == {ImageState(AnyImageQueue, l) : l \in Layouts}
AnyImageOffsets == {OffsetZero, << 1, 0, 0 >>}
AnyImageExtents == {KindExtent, << 1, 1, 1 >>}

UploadedImage(staging, image_offset, image_extent, last, next, got) ==
    /\ family_uploads' = WithFamily(next.queue.family, got.fu)
    /\ nBuffers' = got.buffers
    /\ nFences' = got.fences
    /\ released' = IF got.result = "Ok" THEN released ELSE Append(released, staging)
    /\ nUploads' = staging
    /\ uploads' = Append(uploads,
          [staging |-> staging, queue |-> next.queue,
           last_queue |-> IF last.variant = "State" THEN Some(last.state.queue) ELSE None,
           result |-> got.result, flushed |-> FALSE,
           image_offset |-> image_offset, image_extent |-> image_extent,
           last |-> last, next |-> next])
    /\ panicked' = (got.result = "panic")
    /\ UNCHANGED << threads, lock >>
    /\ UNCHANGED << signaled, submitted, freed, destroyed, reclaimed >>

UploadImageAny ==
    /\ Live
    /\ nUploads < MaxImageUploads
    /\ \E last \in AnyImageLasts, next \in AnyImageNexts,
          image_offset \in AnyImageOffsets, image_extent \in AnyImageExtents :
          UploadedImage(nUploads + 1, image_offset, image_extent, last, next,
                        upload_image(FU(next.queue.family), nUploads + 1, image_offset,
                                     image_extent, last, next, nBuffers, nFences, FALSE))

Next ==
    \/ UploadBuffer
    \/ UploadImage
    \/ Flush
    \/ DeviceComplete
    \/ Cleanup
    \/ CleanupDeviceLost
    \/ Dispose

Spec == Init /\ [][Next]_vars

\* upload_buffer of a resource without prior state, create_fence succeeding.
UploadBufferFirst ==
    /\ Live
    /\ nUploads < MaxUploads
    /\ \E q \in QueueIds :
          Uploaded(q, nUploads + 1, None,
                   upload_buffer(FU(q.family), nUploads + 1, None, BufferState(q),
                                 nBuffers, nFences, FALSE))

\* Uploads, flush and cleanup with a device that completes every submission
\* in the end and a caller that keeps calling cleanup.
NextLive ==
    \/ UploadBufferFirst
    \/ Flush
    \/ DeviceComplete
    \/ Cleanup

SpecLive == Init /\ [][NextLive]_vars /\ WF_vars(DeviceComplete) /\ WF_vars(Cleanup)

\* The image uploads alone, with every kind of request, and flush.
NextImage ==
    \/ UploadImageAny
    \/ Flush

SpecImage == Init /\ [][NextImage]_vars

(***************************************************************************)
(* upload_buffer called from several threads, statement by statement       *)
(***************************************************************************)
\* Mutex::lock returns once no thread holds the Mutex whose owner is `owner`.
unlocked_always(owner) == TRUE

unlocked(owner) == owner = 0

\* The family thread t's request goes to.
FamilyOf(t) == threads[t].queue.family

\* In(t, pc): thread t is at statement pc; Goto(t, pc): it moves on to pc.
In(t, pc) == threads[t].pc = pc
Goto(t, pc) == threads' = [threads EXCEPT ![t].pc = pc]

\* The caller enters upload_buffer with its staging buffer (numbered t), a
\* next state naming queue q and a prior state (none, or one of queue q).
T_Call(t) ==
    /\ In(t, "idle")
    /\ \E q \in QueueIds : \E last \in {None, Some(BufferState(q))} :
          threads' = [threads EXCEPT ![t] = [Idle EXCEPT !.pc = "lock", !.queue = q,
                                                         !.last = last]]
    /\ UNCHANGED << family_uploads, nBuffers, nFences, signaled, submitted, released,
                    freed, destroyed, nUploads, uploads, reclaimed, panicked, lock >>

\* self.family_uploads[next.queue.family.index].as_ref().unwrap().lock()
T_Lock(t) ==
    /\ In(t, "lock")
    /\ unlocked(lock[FamilyOf(t) + 1])
    /\ lock' = [lock EXCEPT ![FamilyOf(t) + 1] = t]
    /\ Goto(t, "register")
    /\ UNCHANGED << family_uploads, nBuffers, nFences, signaled, submitted, released,
                    freed, destroyed, nUploads, uploads, reclaimed, panicked >>

\* family_uploads.barriers.add_buffer(..)
T_Register(t) ==
    /\ In(t, "register")
    /\ family_uploads' = WithFamily(FamilyOf(t),
          [FU(FamilyOf(t)) EXCEPT !.barriers =
              add_buffer(@, t,
                         IF IsSome(threads[t].last)
                         THEN Some(<< Unwrap(threads[t].last).stage,
                                      Unwrap(threads[t].last).access >>)
                         ELSE None,
                         << BufferState(threads[t].queue).stage,
                            BufferState(threads[t].queue).access >>)])
    /\ Goto(t, "match")
    /\ UNCHANGED << nBuffers, nFences, signaled, submitted, released, freed,
                    destroyed, nUploads, uploads, reclaimed, panicked, lock >>

\* next_upload: the padding loop and the match on self.next[queue].
T_Match(t) ==
    /\ In(t, "match")
    /\ family_uploads' = WithFamily(FamilyOf(t),
          [FU(FamilyOf(t)) EXCEPT !.next = PadNext(@, threads[t].queue.index)])
    /\ Goto(t, IF IsSome(Slot(FU(FamilyOf(t)), threads[t].queue.index))
               THEN "record" ELSE "create")
    /\ UNCHANGED << nBuffers, nFences, signaled, submitted, released, freed,
                    destroyed, nUploads, uploads, reclaimed, panicked, lock >>

\* next_upload: the `slot @ None` arm.
T_Create(t) ==
    /\ In(t, "create")
    /\ \E oom \in BOOLEAN :
          LET got == acquire(FU(FamilyOf(t)), threads[t].queue.index,
                             nBuffers, nFences, oom)
          IN  /\ family_uploads' = WithFamily(FamilyOf(t), got.fu)
              /\ nBuffers' = got.buffers
              /\ nFences' = got.fences
              /\ threads' = [threads EXCEPT
                    ![t].pc = IF got.result = "Ok" THEN "record" ELSE "return",
                    ![t].oom = oom,
                    ![t].result = got.result]
    /\ UNCHANGED << signaled, submitted, released, freed, destroyed, nUploads,
                    uploads, reclaimed, panicked, lock >>

\* encoder.copy_buffer(..); next_upload.staging_buffers.push(staging)
T_Record(t) ==
    /\ In(t, "record")
    /\ family_uploads' = WithFamily(FamilyOf(t),
          RecordCopy(FU(FamilyOf(t)), threads[t].queue.index,
                     [op |-> "copy_buffer", src |-> t], t))
    /\ threads' = [threads EXCEPT ![t].pc = "return", ![t].result = "Ok"]
    /\ UNCHANGED << nBuffers, nFences, signaled, submitted, released, freed,
                    destroyed, nUploads, uploads, reclaimed, panicked, lock >>

\* The call returns: the guard is dropped, and so is the staging buffer when
\* the batch did not take it.
T_Return(t) ==
    /\ In(t, "return")
    /\ lock' = [lock EXCEPT ![FamilyOf(t) + 1] = 0]
    /\ Goto(t, "done")
    /\ released' = IF threads[t].result = "Ok" THEN released ELSE Append(released, t)
    /\ nUploads' = nUploads + 1
    /\ uploads' = Append(uploads,
          [staging |-> t, queue |-> threads[t].queue,
           last_queue |-> IF IsSome(threads[t].last)
                          THEN Some(Unwrap(threads[t].last).queue) ELSE None,
           result |-> threads[t].result, flushed |-> FALSE])
    /\ UNCHANGED << family_uploads, nBuffers, nFences, signaled, submitted, freed,
                    destroyed, reclaimed, panicked >>

NextThreads ==
    \E t \in Threads :
        \/ T_Call(t)
        \/ T_Lock(t)
        \/ T_Register(t)
        \/ T_Match(t)
        \/ T_Create(t)
        \/ T_Record(t)
        \/ T_Return(t)

SpecThreads == Init /\ [][NextThreads]_vars

(***************************************************************************)
(* Notions the properties share                                            *)
(***************************************************************************)
\* The staging buffers whose copies command buffer cb carries.
CopySources(cb) ==
    {cb.cmds[i].src : i \in {j \in 1..Len(cb.cmds) : cb.cmds[j].op \in
                                  {"copy_buffer", "copy_buffer_to_image"}}}

\* The resources whose transitions the barriers of phase ph in cb name.
BarrierResources(cb, ph) ==
    UNION { {cb.cmds[i].transitions[k].resource : k \in 1..Len(cb.cmds[i].transitions)} :
            i \in {j \in 1..Len(cb.cmds) :
                      cb.cmds[j].op = "pipeline_barrier" /\ cb.cmds[j].phase = ph} }

\* The successful uploads, by position in the history.
OkUploads == {i \in 1..Len(uploads) : uploads[i].result = "Ok"}

\* The queue indices of a family.
IndicesOf(f) == {q.index : q \in {r \in QueueIds : r.family = f}}

\* The recording batches of family state fu, as a set.
Recording(fu) == {Unwrap(fu.next[i]) : i \in {j \in 1..Len(fu.next) : IsSome(fu.next[j])}}

\* The submissions carrying the copy of staging buffer s.
SubmissionsOf(s) == {i \in 1..Len(submitted) : s \in CopySources(submitted[i].submits[2])}

(***************************************************************************)
(* C1: cleanup reclaims a submitted batch (staging buffers released,       *)
(* command buffers and fence back in the free-lists) only after the device *)
(* has completed that batch's own submission, also when the batch's fence  *)
(* came from the free-list.                                                *)
(***************************************************************************)
C1_ReclaimedOnlyAfterCompletion ==
    \A i \in 1..Len(reclaimed) : reclaimed[i].completed

(***************************************************************************)
(* C2: in every cleanup call the batches reclaimed from a family form the  *)
(* prefix of its pending FIFO that ends before the first unsignaled fence: *)
(* batch k+1 is never reclaimed while batch k is unsignaled.               *)
(***************************************************************************)
C2_PrefixStep(f) ==
    LET before == FU(f).pending
        after == family_uploads'[f + 1].pending
        n == Len(before) - Len(after)
        new == SelectSeq(SubSeq(reclaimed', Len(reclaimed) + 1, Len(reclaimed')),
                         LAMBDA r : r.family = f)
    IN  /\ n >= 0
        /\ after = SubSeq(before, n + 1, Len(before))
        /\ \A k \in 1..n : before[k].fence \in signaled
        /\ n < Len(before) => before[n + 1].fence \notin signaled
        /\ [k \in 1..Len(new) |-> new[k].batch] = SubSeq(before, 1, n)

C2_CleanupReclaimsSignaledPrefix ==
    [][Cleanup => \A f \in Families : C2_PrefixStep(f)]_vars

\* A family whose oldest pending batch is unsignaled while the next one is
\* signaled, and nothing of it has been reclaimed.
C2_Witness ==
    /\ Live
    /\ \E f \in Families :
          /\ Len(FU(f).pending) >= 2
          /\ FU(f).pending[1].fence \notin signaled
          /\ FU(f).pending[2].fence \in signaled
          /\ \A i \in 1..Len(reclaimed) : reclaimed[i].family # f

(***************************************************************************)
(* C3: the uploads issued for one queue since the last flush are all       *)
(* recorded into one batch, the recording batch of that queue: it holds    *)
(* the staging buffer and the copy command of each of them exactly once,   *)
(* and no other recording batch holds any of them.                         *)
(***************************************************************************)
C3_OneRecordingBatchPerQueue ==
    Live =>
    \A i \in OkUploads :
        ~uploads[i].flushed =>
            LET u == uploads[i]
                slot == Slot(FU(u.queue.family), u.queue.index)
            IN  /\ IsSome(slot)
                /\ Count(Unwrap(slot).staging_buffers, u.staging) = 1
                /\ Cardinality({k \in 1..Len(Unwrap(slot).command_buffer.cmds) :
                       Unwrap(slot).command_buffer.cmds[k].src = u.staging}) = 1
                /\ \A f \in Families : \A b \in Recording(FU(f)) :
                       b # Unwrap(slot) =>
                           /\ Count(b.staging_buffers, u.staging) = 0
                           /\ u.staging \notin CopySources(b.command_buffer)

\* Two uploads for the same queue since the last flush, the second one
\* having joined the batch the first one created.
C3_Witness ==
    /\ Live
    /\ \E i, j \in OkUploads :
          /\ i < j
          /\ uploads[i].queue = uploads[j].queue
          /\ ~uploads[i].flushed /\ ~uploads[j].flushed
          /\ Len(Unwrap(Slot(FU(uploads[i].queue.family),
                             uploads[i].queue.index)).staging_buffers) = 2

(***************************************************************************)
(* C4: a flush leaves no queue with a recording batch; the batch a queue   *)
(* had is then in the family's pending FIFO with the same staging buffers, *)
(* command buffers and fence and has been submitted to that queue; a queue *)
(* that had none gets no submission and adds nothing to the FIFO.          *)
(***************************************************************************)
C4_FlushStep(f) ==
    LET fu == FU(f)
        fu2 == family_uploads'[f + 1]
        new == SubSeq(fu2.pending, Len(fu.pending) + 1, Len(fu2.pending))
        subs == SubSeq(submitted', Len(submitted) + 1, Len(submitted'))
        SubsTo(q) == {k \in 1..Len(subs) : subs[k].queue = [family |-> f, index |-> q]}
    IN  /\ SubSeq(fu2.pending, 1, Len(fu.pending)) = fu.pending
        /\ Len(new) = Cardinality({q \in IndicesOf(f) : IsSome(Slot(fu, q))})
        /\ \A q \in IndicesOf(f) :
              /\ ~IsSome(Slot(fu2, q))
              /\ IF IsSome(Slot(fu, q))
                 THEN LET b == Unwrap(Slot(fu, q))
                      IN  /\ Cardinality({k \in 1..Len(new) :
                                 /\ new[k].staging_buffers = b.staging_buffers
                                 /\ new[k].fence = b.fence
                                 /\ new[k].command_buffer.id = b.command_buffer.id
                                 /\ new[k].barriers_buffer.id = b.barriers_buffer.id}) = 1
                          /\ Cardinality(SubsTo(q)) = 1
                          /\ \A k \in SubsTo(q) : subs[k].fence = b.fence
                 ELSE SubsTo(q) = {}

C4_FlushMovesRecordingToPending ==
    [][Flush => \A f \in Families : C4_FlushStep(f)]_vars

\* After a flush that found one queue recording and the others not: one
\* submission, one pending batch, nothing recording.
C4_Witness ==
    /\ Live
    /\ Len(submitted) = 1
    /\ \A i \in 1..Len(uploads) : uploads[i].flushed
    /\ Len(FU(submitted[1].queue.family).pending) = 1
    /\ \A f \in Families : Recording(FU(f)) = {}

(***************************************************************************)
(* C5: round trip of upload_buffer, flush, fence signaled, cleanup: the    *)
(* staging buffers of the batch are released (once each), the pending FIFO *)
(* no longer holds the batch, and its copy command buffer, its barrier     *)
(* command buffer and its fence are each exactly once in the free-list of  *)
(* their kind.                                                             *)
(***************************************************************************)
Ids(cbs) == [i \in 1..Len(cbs) |-> cbs[i].id]

C5_Reclaimed(r) ==
    LET fu2 == family_uploads'[r.family + 1]
    IN  /\ r.batch.fence \in signaled
        /\ \A k \in 1..Len(r.batch.staging_buffers) :
              Count(released', r.batch.staging_buffers[k]) = 1
        /\ \A k \in 1..Len(fu2.pending) :
              /\ fu2.pending[k] # r.batch
              /\ fu2.pending[k].staging_buffers # r.batch.staging_buffers
        /\ Count(Ids(fu2.command_buffers), r.batch.command_buffer.id) = 1
        /\ Count(Ids(fu2.barriers_buffers), r.batch.command_buffer.id) = 0
        /\ Count(Ids(fu2.barriers_buffers), r.batch.barriers_buffer.id) = 1
        /\ Count(Ids(fu2.command_buffers), r.batch.barriers_buffer.id) = 0
        /\ Count(fu2.fences, r.batch.fence) = 1

C5_RoundTrip ==
    [][Cleanup => \A k \in (Len(reclaimed) + 1)..Len(reclaimed') :
                     C5_Reclaimed(reclaimed'[k])]_vars

\* A batch of one upload_buffer went the whole way: its submission was
\* completed, cleanup reclaimed it, and its staging buffer is released.
C5_Witness ==
    /\ Live
    /\ \E i \in 1..Len(reclaimed) :
          /\ reclaimed[i].completed
          /\ reclaimed[i].batch.command_buffer.cmds[1].op = "copy_buffer"
          /\ Count(released, reclaimed[i].batch.staging_buffers[1]) = 1
          /\ Count(FU(reclaimed[i].family).fences, reclaimed[i].batch.fence) = 1

(***************************************************************************)
(* C6: for every upload, flush emits the "before" barrier the upload       *)
(* registered into the barrier buffer of the batch that carries the        *)
(* upload's copy command, and the "after" barrier into that batch's copy   *)
(* buffer, for every queue of a family that is recording at the flush.     *)
(***************************************************************************)
C6_BarriersInOwnBatch ==
    \A i \in OkUploads : \A k \in SubmissionsOf(uploads[i].staging) :
        /\ uploads[i].staging \in BarrierResources(submitted[k].submits[1], "before")
        /\ uploads[i].staging \in BarrierResources(submitted[k].submits[2], "after")

(***************************************************************************)
(* C7: every batch is submitted exactly once, by a flush, to the queue it  *)
(* was recorded for, as one submission of its barrier buffer followed by   *)
(* its copy buffer that signals its own fence; it goes from recording to   *)
(* pending to reclaimed and never back.                                    *)
(***************************************************************************)
PendingOf(s) ==
    UNION {{FU(f).pending[i] : i \in {j \in 1..Len(FU(f).pending) :
                                         Count(FU(f).pending[j].staging_buffers, s) > 0}} :
           f \in Families}
RecordingOf(s) ==
    UNION {{b \in Recording(FU(f)) : Count(b.staging_buffers, s) > 0} : f \in Families}
ReclaimedOf(s) ==
    {reclaimed[i].batch : i \in {j \in 1..Len(reclaimed) :
                                    Count(reclaimed[j].batch.staging_buffers, s) > 0}}

\* 1: recording, 2: submitted (pending), 3: reclaimed.
Rank(s) ==
    IF RecordingOf(s) # {} THEN 1 ELSE IF PendingOf(s) # {} THEN 2 ELSE 3

C7_Submitted(i) ==
    LET u == uploads[i]
        s == u.staging
    IN  /\ Cardinality(RecordingOf(s)) + Cardinality(PendingOf(s))
              + Cardinality(ReclaimedOf(s)) = 1
        /\ RecordingOf(s) # {} <=> ~u.flushed
        /\ RecordingOf(s) # {} => SubmissionsOf(s) = {}
        /\ RecordingOf(s) = {} =>
              /\ Cardinality(SubmissionsOf(s)) = 1
              /\ \A k \in SubmissionsOf(s) :
                    /\ submitted[k].queue = u.queue
                    /\ Len(submitted[k].submits) = 2
                    /\ CopySources(submitted[k].submits[1]) = {}
                    /\ \A b \in PendingOf(s) \cup ReclaimedOf(s) :
                          /\ submitted[k].submits = << b.barriers_buffer, b.command_buffer >>
                          /\ submitted[k].fence = b.fence

C7_Step ==
    (family_uploads' # << >> /\ ~panicked') =>
        \A i \in OkUploads : Rank(uploads[i].staging) <= Rank(uploads[i].staging)'

C7_SubmittedExactlyOnce ==
    /\ [](Live => \A i \in OkUploads : C7_Submitted(i))
    /\ [][C7_Step]_vars

\* A batch that has been recording, then pending, and is now reclaimed,
\* with its one submission completed.
C7_Witness ==
    /\ Live
    /\ \E i \in OkUploads :
          /\ ReclaimedOf(uploads[i].staging) # {}
          /\ \E k \in SubmissionsOf(uploads[i].staging) : submitted[k].done

(***************************************************************************)
(* C8: an upload_buffer or upload_image call that fails with resource      *)
(* exhaustion (create_fence fails while the recording batch is created)    *)
(* leaves the family as before the call: no recording batch for the queue, *)
(* no barrier request of the failed call accumulated, and the free-lists   *)
(* of command buffers unchanged.                                           *)
(***************************************************************************)
C8_Step ==
    (nUploads' = nUploads + 1 /\ uploads'[nUploads'].result = "Err(OutOfMemory)") =>
        LET q == uploads'[nUploads'].queue
            fu == FU(q.family)
            fu2 == family_uploads'[q.family + 1]
        IN  /\ ~IsSome(Slot(fu2, q.index))
            /\ fu2.barriers = fu.barriers
            /\ fu2.command_buffers = fu.command_buffers
            /\ fu2.barriers_buffers = fu.barriers_buffers

C8_FailedUploadLeavesNoTrace == [][C8_Step]_vars

(***************************************************************************)
(* C9: an upload whose prior state names another queue than its next state *)
(* ends with an explicit unsupported-cross-queue error, not with an abort  *)
(* of the process, and leaves the scheduler state unchanged.               *)
(***************************************************************************)
CrossQueue(u) == IsSome(u.last_queue) /\ Unwrap(u.last_queue) # u.queue

C9_Step ==
    (nUploads' = nUploads + 1 /\ CrossQueue(uploads'[nUploads'])) =>
        /\ uploads'[nUploads'].result = "Err(UnsupportedCrossQueue)"
        /\ ~panicked'
        /\ family_uploads' = family_uploads

C9_CrossQueueIsAnError == [][C9_Step]_vars

(***************************************************************************)
(* C10: dispose frees every command buffer of the family's pool exactly    *)
(* once: the barrier and the copy command buffer of every pending batch    *)
(* and of every recording batch, and every buffer in the two free-lists.   *)
(***************************************************************************)
\* The command buffers family state fu holds.
HeldBuffers(fu) ==
    UNION {{fu.pending[i].command_buffer.id, fu.pending[i].barriers_buffer.id} :
           i \in 1..Len(fu.pending)}
    \cup UNION {{b.command_buffer.id, b.barriers_buffer.id} : b \in Recording(fu)}
    \cup SeqToSet(Ids(fu.command_buffers))
    \cup SeqToSet(Ids(fu.barriers_buffers))

C10_Step ==
    (family_uploads # << >> /\ family_uploads' = << >>) =>
        \A f \in Families : \A id \in HeldBuffers(FU(f)) : Count(freed', id) = 1

C10_DisposeFreesEveryCommandBuffer == [][C10_Step]_vars


(***************************************************************************)
(* C11: dispose destroys every fence the device ever created for the       *)
(* scheduler exactly once (those of the pending batches, of the recording  *)
(* batches and of the free-list), none twice and none left; with no fence  *)
(* ever created it destroys none.                                          *)
(***************************************************************************)
C11_DisposeDestroysEveryFenceOnce ==
    family_uploads = << >> =>
        /\ Len(destroyed) = nFences
        /\ \A id \in 1..nFences : Count(destroyed, id) = 1

\* Disposed with one fence that was pooled or pending and one that belonged
\* to a recording batch.
C11_Witness ==
    /\ family_uploads = << >>
    /\ nFences = 2
    /\ Len(destroyed) = 2
    /\ \E i \in 1..Len(uploads) : uploads[i].result = "Ok" /\ ~uploads[i].flushed
    /\ \E i \in 1..Len(uploads) : uploads[i].result = "Ok" /\ uploads[i].flushed

\* Disposed right after construction: no fence created, none destroyed.
C11_WitnessNone == family_uploads = << >> /\ nFences = 0 /\ destroyed = << >>


(***************************************************************************)
(* C12: in upload_image the target layout is "general" if the next layout  *)
(* is "general", otherwise "general" if the previous layout used for the   *)
(* barrier is "general", otherwise "transfer-destination-optimal"; the     *)
(* barrier request and the copy command use the same target layout.        *)
(***************************************************************************)
\* The image uploads of the history that registered a barrier request.
ImageUploads ==
    {i \in 1..Len(uploads) : "image_extent" \in DOMAIN uploads[i] /\ uploads[i].result # "panic"}

\* The barrier requests naming resource s: those still accumulated and those
\* emitted into the barrier buffer of a submission.
RequestsOf(s) ==
    UNION {{FU(f).barriers.before[k] : k \in {j \in 1..Len(FU(f).barriers.before) :
                                               FU(f).barriers.before[j].resource = s}} :
           f \in Families}
    \cup UNION {UNION {{c.transitions[k] : k \in {j \in 1..Len(c.transitions) :
                                                   c.transitions[j].resource = s}} :
                       c \in {submitted[n].submits[1].cmds[m] :
                              m \in 1..Len(submitted[n].submits[1].cmds)}} :
                n \in 1..Len(submitted)}

\* The copy commands reading staging buffer s, recorded or submitted.
CopiesOf(s) ==
    UNION {UNION {{b.command_buffer.cmds[k] : k \in {j \in 1..Len(b.command_buffer.cmds) :
                       b.command_buffer.cmds[j].op = "copy_buffer_to_image"
                       /\ b.command_buffer.cmds[j].src = s}} :
                  b \in Recording(FU(f))} : f \in Families}
    \cup UNION {{submitted[n].submits[2].cmds[k] :
                    k \in {j \in 1..Len(submitted[n].submits[2].cmds) :
                              submitted[n].submits[2].cmds[j].op = "copy_buffer_to_image"
                              /\ submitted[n].submits[2].cmds[j].src = s}} :
                n \in 1..Len(submitted)}

C12_TargetLayout ==
    Live =>
    \A i \in ImageUploads :
        /\ RequestsOf(i) # {}
        /\ CopiesOf(i) # {}
        /\ \A r \in RequestsOf(i) :
              /\ r.next_layout = uploads[i].next.layout
              /\ r.next_layout = "General" => r.target_layout = "General"
              /\ (r.next_layout # "General" /\ r.last_layout = "General") =>
                    r.target_layout = "General"
              /\ (r.next_layout # "General" /\ r.last_layout # "General") =>
                    r.target_layout = "TransferDstOptimal"
              /\ \A c \in CopiesOf(i) : c.layout = r.target_layout

\* A part of an image in layout "general" uploaded for a next layout that is
\* not "general": barrier and copy both target "general".
C12_Witness ==
    /\ Live
    /\ \E i \in ImageUploads : \E r \in RequestsOf(i) : \E c \in CopiesOf(i) :
          /\ r.last_layout = "General"
          /\ r.next_layout = "ShaderReadOnlyOptimal"
          /\ r.target_layout = "General"
          /\ c.layout = "General"

(***************************************************************************)
(* C13: when the offset is (0,0,0) and the extent is the image's full      *)
(* extent, the "before" layout of the barrier upload_image registers is    *)
(* "undefined" whatever layout the caller reported, as a full prior state  *)
(* or as a bare layout; otherwise it is the layout the caller reported.    *)
(***************************************************************************)
ReportedLayout(last) ==
    IF last.variant = "State" THEN last.state.layout ELSE last.layout

C13_BeforeLayout ==
    Live =>
    \A i \in ImageUploads :
        /\ RequestsOf(i) # {}
        /\ \A r \in RequestsOf(i) :
              r.last_layout =
                 IF uploads[i].image_offset = << 0, 0, 0 >>
                    /\ uploads[i].image_extent = KindExtent
                 THEN "Undefined"
                 ELSE ReportedLayout(uploads[i].last)

\* A whole-image upload whose caller reported "shader-read-only" as a full
\* prior state, registered as coming from "undefined".
C13_Witness ==
    /\ Live
    /\ \E i \in ImageUploads :
          /\ uploads[i].last.variant = "State"
          /\ uploads[i].last.state.layout = "ShaderReadOnlyOptimal"
          /\ uploads[i].image_offset = OffsetZero
          /\ uploads[i].image_extent = KindExtent
          /\ \E r \in RequestsOf(i) : r.last_layout = "Undefined"

\* The same with the layout reported bare, and a partial upload that keeps
\* the reported layout.
C13_WitnessLayout ==
    /\ Live
    /\ \E i \in ImageUploads :
          /\ uploads[i].last = LayoutOf("ShaderReadOnlyOptimal")
          /\ uploads[i].image_offset = OffsetZero
          /\ uploads[i].image_extent = KindExtent
          /\ \E r \in RequestsOf(i) : r.last_layout = "Undefined"

C13_WitnessPartial ==
    /\ Live
    /\ \E i \in ImageUploads :
          /\ uploads[i].image_offset # OffsetZero
          /\ uploads[i].image_extent = KindExtent
          /\ \E r \in RequestsOf(i) : r.last_layout = "ShaderReadOnlyOptimal"

(***************************************************************************)
(* C14: there is no cancellation. While the scheduler is in use, the copy  *)
(* command of every successful upload sits in the batch that holds its     *)
(* staging buffer, the staging buffer is released exactly when that batch  *)
(* has been reclaimed, and a flush call submits the copy of every upload   *)
(* recorded since the previous flush.                                      *)
(***************************************************************************)
\* The copy commands reading staging buffer s in command buffer cb.
CopiesFrom(cb, s) ==
    {k \in 1..Len(cb.cmds) :
        /\ cb.cmds[k].op \in {"copy_buffer", "copy_buffer_to_image"}
        /\ cb.cmds[k].src = s}

C14_Owned(i) ==
    LET s == uploads[i].staging
        holders == RecordingOf(s) \cup PendingOf(s)
    IN  /\ ReclaimedOf(s) = {} =>
              /\ Count(released, s) = 0
              /\ Cardinality(holders) = 1
              /\ \A b \in holders :
                    /\ Count(b.staging_buffers, s) = 1
                    /\ Cardinality(CopiesFrom(b.command_buffer, s)) = 1
        /\ ReclaimedOf(s) # {} =>
              /\ Count(released, s) = 1
              /\ holders = {}

C14_FlushStep ==
    Flush => \A i \in OkUploads :
        RecordingOf(uploads[i].staging) # {} =>
            /\ SubmissionsOf(uploads[i].staging) = {}
            /\ Cardinality(SubmissionsOf(uploads[i].staging)') = 1
            /\ \A k \in SubmissionsOf(uploads[i].staging)' :
                  Cardinality(CopiesFrom(submitted'[k].submits[2], uploads[i].staging)) = 1

C14_NoCancellation ==
    /\ [](Live => \A i \in OkUploads : C14_Owned(i))
    /\ [][C14_FlushStep]_vars

\* Two uploads recorded before one flush are both submitted, neither
\* completed yet, and their staging buffers are still held by their batches.
C14_Witness ==
    /\ Live
    /\ Cardinality(OkUploads) = 2
    /\ \A i \in OkUploads :
          /\ \E k \in SubmissionsOf(uploads[i].staging) : ~submitted[k].done
          /\ PendingOf(uploads[i].staging) # {}
          /\ Count(released, uploads[i].staging) = 0
    /\ Len(submitted) = 1

(***************************************************************************)
(* C15: upload_buffer calls made concurrently by several threads exclude   *)
(* each other per family from barrier registration to command recording,   *)
(* and when they have all returned the families and the device counters    *)
(* are what the same calls give one after the other in some order, each    *)
(* successful call's staging buffer and copy command being once in the one *)
(* recording batch of its queue.                                           *)
(***************************************************************************)
\* The statements of upload_buffer between lock() and the drop of the guard.
InCritical(t) == threads[t].pc \in {"register", "match", "create", "record", "return"}

\* The orders in which the threads can be taken.
Orders == {o \in [Threads -> Threads] : \A t, u \in Threads : o[t] = o[u] => t = u}

\* The calls of the threads made one after the other, in order o from
\* position k on, each as one whole upload_buffer.
RECURSIVE SerialRun(_, _, _)
SerialRun(o, k, st) ==
    IF k > MaxThreads THEN st
    ELSE LET t == o[k]
             f == threads[t].queue.family
             got == upload_buffer(st.family_uploads[f + 1], t, threads[t].last,
                                  BufferState(threads[t].queue), st.buffers, st.fences,
                                  threads[t].oom)
         IN  SerialRun(o, k + 1,
                       [family_uploads |-> [st.family_uploads EXCEPT ![f + 1] = got.fu],
                        buffers |-> got.buffers, fences |-> got.fences,
                        results |-> Append(st.results, << t, got.result >>)])

AllDone == \A t \in Threads : In(t, "done")

C15_Serial ==
    \E o \in Orders :
        LET st == SerialRun(o, 1, [family_uploads |->
                                      [i \in 1..Cardinality(Families) |-> FamilyUploads_new],
                                   buffers |-> 0, fences |-> 0, results |-> << >>])
        IN  /\ st.family_uploads = family_uploads
            /\ st.buffers = nBuffers
            /\ st.fences = nFences
            /\ \A k \in 1..MaxThreads : st.results[k][2] = threads[st.results[k][1]].result

C15_NoneLost ==
    \A t \in Threads :
        LET slot == Slot(FU(FamilyOf(t)), threads[t].queue.index)
        IN  IF threads[t].result = "Ok"
            THEN /\ IsSome(slot)
                 /\ Count(Unwrap(slot).staging_buffers, t) = 1
                 /\ Cardinality(CopiesFrom(Unwrap(slot).command_buffer, t)) = 1
                 /\ Cardinality(RecordingOf(t)) = 1
            ELSE RecordingOf(t) = {}

C15_ConcurrentUploadsSerialize ==
    /\ \A t, u \in Threads :
          (t # u /\ InCritical(t) /\ InCritical(u)) => FamilyOf(t) # FamilyOf(u)
    /\ \A t \in Threads : InCritical(t) => lock[FamilyOf(t) + 1] = t
    /\ AllDone => C15_Serial /\ C15_NoneLost

\* Two threads have uploaded to the same queue, the second one having
\* waited at the lock; both copies are in the one batch of that queue.
C15_Witness ==
    /\ AllDone
    /\ threads[1].queue = threads[2].queue
    /\ threads[1].result = "Ok" /\ threads[2].result = "Ok"
    /\ \E b \in Recording(FU(FamilyOf(1))) :
          Count(b.staging_buffers, 1) = 1 /\ Count(b.staging_buffers, 2) = 1

(***************************************************************************)
(* C16: reclamation is deferred but not lost. A cleanup call leaves no     *)
(* family with a signaled fence at the head of its pending FIFO; with a    *)
(* device that completes every submission and a caller that keeps calling  *)
(* cleanup, from some point on every pending FIFO stays empty and every    *)
(* batch that was submitted has been reclaimed.                            *)
(***************************************************************************)
C16_CleanupStep ==
    Cleanup => \A f \in Families :
        \/ family_uploads'[f + 1].pending = << >>
        \/ Head(family_uploads'[f + 1].pending).fence \notin signaled

PendingEmpty == \A f \in Families : FU(f).pending = << >>

C16_Settled ==
    /\ Live
    /\ PendingEmpty
    /\ \A i \in OkUploads :
          uploads[i].flushed => ReclaimedOf(uploads[i].staging) # {}

C16_DeferredNotLost ==
    /\ [][C16_CleanupStep]_vars
    /\ <>[]C16_Settled

\* Two batches submitted by two flushes have both been completed by the
\* device and reclaimed, and nothing is pending.
C16_Witness ==
    /\ Live
    /\ PendingEmpty
    /\ Len(submitted) = 2
    /\ Len(reclaimed) = 2
    /\ \A i \in 1..2 : reclaimed[i].completed
    /\ \A i \in OkUploads : ReclaimedOf(uploads[i].staging) # {}

(***************************************************************************)
(* C17: a cleanup call leaves a family whose oldest pending batch has an   *)
(* unsignaled fence exactly as it was: the same pending batches in the     *)
(* same order, the same free-lists, the same recording batches, and none   *)
(* of the staging buffers its batches hold released.                       *)
(***************************************************************************)
\* The staging buffers the batches of family state fu hold.
StagingOf(fu) ==
    UNION ({SeqToSet(fu.pending[i].staging_buffers) : i \in 1..Len(fu.pending)}
           \cup {SeqToSet(b.staging_buffers) : b \in Recording(fu)})

HeadUnsignaled(f) ==
    FU(f).pending # << >> /\ Head(FU(f).pending).fence \notin signaled

C17_Step ==
    Cleanup => \A f \in Families :
        HeadUnsignaled(f) =>
            /\ family_uploads'[f + 1].pending = FU(f).pending
            /\ family_uploads'[f + 1].fences = FU(f).fences
            /\ family_uploads'[f + 1].command_buffers = FU(f).command_buffers
            /\ family_uploads'[f + 1].barriers_buffers = FU(f).barriers_buffers
            /\ family_uploads'[f + 1].next = FU(f).next
            /\ family_uploads'[f + 1] = FU(f)
            /\ \A s \in StagingOf(FU(f)) : Count(released', s) = Count(released, s)
            /\ \A i \in (Len(reclaimed) + 1)..Len(reclaimed') : reclaimed'[i].family # f

C17_CleanupBlockedChangesNothing == [][C17_Step]_vars

\* A cleanup call has reclaimed the batch of one family while the other
\* family keeps its pending batch, submitted earlier, whose fence is
\* unsignaled.
C17_Witness ==
    /\ Live
    /\ \E f, g \in Families :
          /\ f # g
          /\ HeadUnsignaled(f)
          /\ Len(submitted) = 2
          /\ submitted[1].queue.family = f
          /\ submitted[2].queue.family = g
          /\ \E i \in 1..Len(reclaimed) : reclaimed[i].family = g
          /\ FU(g).pending = << >>

(***************************************************************************)
(* C18: an upload that finds no recording batch for its queue allocates a  *)
(* command buffer only for a free-list that is empty and creates a fence   *)
(* only when the free-list of fences is empty; otherwise the new batch     *)
(* takes the pooled ones, last in first out. An upload that joins a batch  *)
(* allocates and creates nothing.                                          *)
(***************************************************************************)
\* 1 when the free-list v is empty, else 0.
IfEmpty(v) == IF v = << >> THEN 1 ELSE 0

C18_Step ==
    (nUploads' = nUploads + 1 /\ uploads'[nUploads'].result # "panic") =>
        LET u == uploads'[nUploads']
            fu == FU(u.queue.family)
            after == family_uploads'[u.queue.family + 1]
            batch == Unwrap(Slot(after, u.queue.index))
        IN  IF IsSome(Slot(fu, u.queue.index))
            THEN /\ nBuffers' = nBuffers
                 /\ nFences' = nFences
                 /\ after.command_buffers = fu.command_buffers
                 /\ after.barriers_buffers = fu.barriers_buffers
                 /\ after.fences = fu.fences
            ELSE /\ nBuffers' = nBuffers + IfEmpty(fu.command_buffers)
                                          + IfEmpty(fu.barriers_buffers)
                 /\ nFences' = nFences + (IF u.result = "Ok" THEN IfEmpty(fu.fences) ELSE 0)
                 /\ after.command_buffers = PopRest(fu.command_buffers)
                 /\ after.barriers_buffers = PopRest(fu.barriers_buffers)
                 /\ after.fences = PopRest(fu.fences)
                 /\ u.result = "Ok" =>
                       /\ batch.command_buffer.id =
                             IF fu.command_buffers = << >> THEN nBuffers + 1
                             ELSE fu.command_buffers[Len(fu.command_buffers)].id
                       /\ batch.barriers_buffer.id =
                             IF fu.barriers_buffers = << >> THEN nBuffers' 
                             ELSE fu.barriers_buffers[Len(fu.barriers_buffers)].id
                       /\ batch.fence =
                             IF fu.fences = << >> THEN nFences + 1
                             ELSE fu.fences[Len(fu.fences)]

C18_AllocatesOnlyWhenPoolEmpty == [][C18_Step]_vars

\* A batch created after cleanup reclaimed an earlier batch of the family
\* reuses that batch's two command buffers and its fence: two command
\* buffers and one fence exist in all.
C18_Witness ==
    /\ Live
    /\ nBuffers = 2
    /\ nFences = 1
    /\ \E i \in 1..Len(reclaimed) : \E b \in Recording(FU(reclaimed[i].family)) :
          /\ b.fence = reclaimed[i].batch.fence
          /\ b.command_buffer.id = reclaimed[i].batch.command_buffer.id
          /\ b.barriers_buffer.id = reclaimed[i].batch.barriers_buffer.id
          /\ b.staging_buffers # << >>

(***************************************************************************)
(* C19: a successful upload for queue q of family f changes family f only: *)
(* the recording batch of queue index q gets exactly one more staging      *)
(* buffer, the call's, and one more command, the call's copy; the other    *)
(* families, the recording batches of the other queue indices of f and the *)
(* pending FIFO of f are as before.                                        *)
(***************************************************************************)
\* The staging buffers and the commands of the recording batch in `slot`.
StagingIn(slot) == IF IsSome(slot) THEN Unwrap(slot).staging_buffers ELSE << >>
CmdsIn(slot) == IF IsSome(slot) THEN Unwrap(slot).command_buffer.cmds ELSE << >>

C19_Step ==
    (nUploads' = nUploads + 1 /\ uploads'[nUploads'].result = "Ok") =>
        LET u == uploads'[nUploads']
            f == u.queue.family
            q == u.queue.index
            fu == FU(f)
            after == family_uploads'[f + 1]
        IN  /\ \A g \in Families \ {f} : family_uploads'[g + 1] = FU(g)
            /\ \A i \in IndicesOf(f) \ {q} : Slot(after, i) = Slot(fu, i)
            /\ after.pending = fu.pending
            /\ IsSome(Slot(after, q))
            /\ StagingIn(Slot(after, q)) = Append(StagingIn(Slot(fu, q)), u.staging)
            /\ Len(CmdsIn(Slot(after, q))) = Len(CmdsIn(Slot(fu, q))) + 1
            /\ SubSeq(CmdsIn(Slot(after, q)), 1, Len(CmdsIn(Slot(fu, q)))) = CmdsIn(Slot(fu, q))
            /\ CmdsIn(Slot(after, q))[Len(CmdsIn(Slot(after, q)))].src = u.staging
            /\ IsSome(Slot(fu, q)) =>
                  /\ Unwrap(Slot(after, q)).fence = Unwrap(Slot(fu, q)).fence
                  /\ Unwrap(Slot(after, q)).barriers_buffer = Unwrap(Slot(fu, q)).barriers_buffer
            /\ released' = released

C19_UploadChangesOnlyItsBatch == [][C19_Step]_vars

\* Family 0 records a batch for queue 1, then one for queue 0 created by a
\* later upload: both are there, each with its own upload.
C19_Witness ==
    /\ Live
    /\ Len(uploads) = 2
    /\ uploads[1].queue = [family |-> 0, index |-> 1]
    /\ uploads[2].queue = [family |-> 0, index |-> 0]
    /\ StagingIn(Slot(FU(0), 1)) = << 1 >>
    /\ StagingIn(Slot(FU(0), 0)) = << 2 >>

(***************************************************************************)
(* C20: the pending FIFO of a family is in submission order. The batches   *)
(* of a family's FIFO were submitted in the order they have in it; a flush *)
(* keeps the batches that were pending in front, and appends the batches   *)
(* it submits behind them in the order it submits them, which is by        *)
(* increasing queue index.                                                 *)
(***************************************************************************)
\* The positions in the device's log of the submissions of batch b.
SubmittedAt(b) ==
    {i \in 1..Len(submitted) :
        submitted[i].submits = << b.barriers_buffer, b.command_buffer >>}

C20_InOrder(f) ==
    /\ \A j \in 1..Len(FU(f).pending) :
          /\ Cardinality(SubmittedAt(FU(f).pending[j])) = 1
          /\ \A a \in SubmittedAt(FU(f).pending[j]) : submitted[a].queue.family = f
    /\ \A j, k \in 1..Len(FU(f).pending) :
          j < k =>
              \A a \in SubmittedAt(FU(f).pending[j]), b \in SubmittedAt(FU(f).pending[k]) :
                  a < b

C20_FlushStep ==
    Flush => \A f \in Families :
        LET before == FU(f).pending
            after == family_uploads'[f + 1].pending
            new == SubSeq(after, Len(before) + 1, Len(after))
            subs == SelectSeq(SubSeq(submitted', Len(submitted) + 1, Len(submitted')),
                              LAMBDA s : s.queue.family = f)
        IN  /\ SubSeq(submitted', 1, Len(submitted)) = submitted
            /\ Len(after) >= Len(before)
            /\ SubSeq(after, 1, Len(before)) = before
            /\ Len(subs) = Len(new)
            /\ \A k \in 1..Len(new) :
                  /\ subs[k].submits = << new[k].barriers_buffer, new[k].command_buffer >>
                  /\ subs[k].fence = new[k].fence
            /\ \A j, k \in 1..Len(subs) : j < k => subs[j].queue.index < subs[k].queue.index

C20_PendingInSubmissionOrder ==
    /\ [](Live => \A f \in Families : C20_InOrder(f))
    /\ [][C20_FlushStep]_vars

\* One flush has submitted two batches of family 0, the one of queue 0
\* before the one of queue 1 although queue 1 got its upload first; they
\* are pending in that order.
C20_Witness ==
    /\ Live
    /\ Len(uploads) = 2
    /\ uploads[1].queue = [family |-> 0, index |-> 1]
    /\ uploads[2].queue = [family |-> 0, index |-> 0]
    /\ Len(FU(0).pending) = 2
    /\ Len(submitted) = 2
    /\ submitted[1].queue.index = 0 /\ 1 \in SubmittedAt(FU(0).pending[1])
    /\ submitted[2].queue.index = 1 /\ 2 \in SubmittedAt(FU(0).pending[2])

(***************************************************************************)
(* C21: the fence of a batch is unsignaled from the creation of the batch  *)
(* until the device has completed the batch's submission, for a fence that *)
(* was freshly created and for one taken from the free-list alike.         *)
(***************************************************************************)
\* The device has completed a submission of batch b.
Done(b) == \E i \in SubmittedAt(b) : submitted[i].done

C21_FenceUnsignaledUntilCompletion ==
    Live => \A f \in Families :
        /\ \A b \in Recording(FU(f)) : b.fence \notin signaled
        /\ \A j \in 1..Len(FU(f).pending) :
              ~Done(FU(f).pending[j]) => FU(f).pending[j].fence \notin signaled

(***************************************************************************)
(* C22: between construction and dispose, every command buffer allocated   *)
(* from a family's pool and every fence created is held in exactly one     *)
(* place of that family: a free-list, a recording batch or a pending       *)
(* batch. None is lost and none is held twice.                             *)
(***************************************************************************)
\* The command buffers and the fences family state fu holds, one entry per
\* place that holds one.
BuffersHeldBy(fu) ==
    LET recording == SelectSeq(fu.next, IsSome)
    IN  Ids(fu.command_buffers) \o Ids(fu.barriers_buffers)
        \o Flatten([i \in 1..Len(fu.pending) |->
                       << fu.pending[i].command_buffer.id, fu.pending[i].barriers_buffer.id >>])
        \o Flatten([i \in 1..Len(recording) |->
                       << Unwrap(recording[i]).command_buffer.id,
                          Unwrap(recording[i]).barriers_buffer.id >>])

FencesHeldBy(fu) ==
    LET recording == SelectSeq(fu.next, IsSome)
    IN  fu.fences
        \o [i \in 1..Len(fu.pending) |-> fu.pending[i].fence]
        \o [i \in 1..Len(recording) |-> Unwrap(recording[i]).fence]

C22_BuffersHeldOnce ==
    Live =>
        /\ \A f \in Families : \A id \in FU(f).pool : Count(BuffersHeldBy(FU(f)), id) = 1
        /\ UNION {FU(f).pool : f \in Families} = 1..nBuffers

C22_FencesHeldOnce ==
    Live => \A id \in 1..nFences :
        Cardinality({f \in Families : Count(FencesHeldBy(FU(f)), id) = 1}) = 1
        /\ \A f \in Families : Count(FencesHeldBy(FU(f)), id) <= 1

C22_ResourcesHeldExactlyOnce == C22_BuffersHeldOnce /\ C22_FencesHeldOnce

(***************************************************************************)
(* C23: in every state reached by upload, flush and cleanup calls, the     *)
(* three free-lists of a family (fences, copy command buffers, barrier     *)
(* command buffers) have the same length.                                  *)
(***************************************************************************)
C23_FreeListsSameLength ==
    Live => \A f \in Families :
        /\ Len(FU(f).fences) = Len(FU(f).command_buffers)
        /\ Len(FU(f).command_buffers) = Len(FU(f).barriers_buffers)

\* A family whose free-lists hold what two reclaimed batches gave back.
C23_Witness ==
    /\ Live
    /\ \E f \in Families :
          /\ Len(FU(f).fences) = 2
          /\ Len(FU(f).command_buffers) = 2
          /\ Len(FU(f).barriers_buffers) = 2
          /\ Cardinality({i \in 1..Len(reclaimed) : reclaimed[i].family = f}) = 2

\* A family that took a batch from free-lists of length one: they are
\* empty again while the batch records.
C23_WitnessPopped ==
    /\ Live
    /\ \E i \in 1..Len(reclaimed) :
          /\ FU(reclaimed[i].family).fences = << >>
          /\ FU(reclaimed[i].family).command_buffers = << >>
          /\ FU(reclaimed[i].family).barriers_buffers = << >>
          /\ \E b \in Recording(FU(reclaimed[i].family)) : b.fence = reclaimed[i].batch.fence

====
